---- MODULE Spec2Model ----
(***************************************************************************)
(* Model of SudokoSolver.py: the candidate grid, the seven reduction rules, *)
(* the propagation loop applyAndValidate and the breadth-first search of    *)
(* sudoku_solver.                                                           *)
(*                                                                          *)
(* A grid is a function from the 81 cell indices 0..80 (row-major) to the   *)
(* cell's set of candidate digits.  The Python program keeps one set object *)
(* per cell and reaches it through rows, columns, squares and triplets; the *)
(* index of the cell plays the part of the object's identity.               *)
(***************************************************************************)
EXTENDS Integers, Sequences, FiniteSets, TLC

Cells == 0 .. 80
Digits == 1 .. 9
Pos == 0 .. 8

\* TLC keeps a function written [c \in Cells |-> ...] as an expression that
\* it evaluates at each application.  Combined with the empty function the
\* function is the same, and TLC tabulates it.
Tabulated(g) == g @@ << >>

\* A rule's running state: the grid it mutates and the count it returns.
Res(g, n) == [g |-> Tabulated(g), count |-> n]

\* The member of a set of one.  A loop below takes its running state as the
\* s of { ... : s \in {st} }: TLC evaluates an operator's argument where it
\* is used, as often as it is used, and the member of a set once.
Only(S) == CHOOSE x \in S : TRUE

(***************************************************************************)
(* setupGame: the 27 nines and the 54 triplets, as cell indices.            *)
(***************************************************************************)

\* gameNines[k][p]: nines 0..8 are the rows, 9..17 the columns (the
\* transpose), 18..26 the squares (three rows of three cells each).
NineCell(k, p) ==
  IF k < 9 THEN 9 * k + p
  ELSE IF k < 18 THEN 9 * p + (k - 9)
  ELSE LET s == k - 18
       IN  9 * (3 * (s \div 3) + (p \div 3)) + 3 * (s % 3) + (p % 3)

NineCells(k) == { NineCell(k, p) : p \in Pos }

\* gameTriplets[t][0]: triplets 0..26 cut the rows (row t \div 3, cells
\* 3*(t%3) .. 3*(t%3)+2), triplets 27..53 cut the columns likewise.
TripLine(t) == IF t < 27 THEN t \div 3 ELSE 9 + ((t - 27) \div 3)

TripPart(t) == IF t < 27 THEN t % 3 ELSE (t - 27) % 3

TripSquare(t) ==
  IF t < 27 THEN 18 + 3 * ((t \div 3) \div 3) + (t % 3)
  ELSE 18 + (((t - 27) \div 3) \div 3) + 3 * ((t - 27) % 3)

TripCells(t) == { NineCell(TripLine(t), p) : p \in (3 * TripPart(t)) .. (3 * TripPart(t) + 2) }

\* gameTriplets[t][1]: the other six cells of the row or column.
LineSisters(t) == NineCells(TripLine(t)) \ TripCells(t)

\* gameTriplets[t][2]: the other six cells of the square.
SquareSisters(t) == NineCells(TripSquare(t)) \ TripCells(t)

(***************************************************************************)
(* eliminateFound                                                           *)
(***************************************************************************)

\* A faulty eliminateFound: "if c is not cell and len(c) > 1 and c & cell",
\* which never touches a cell of length 1.
eliminateFoundCellOpen(st, k, p) ==
  LET g == st.g
      cell == NineCell(k, p)
      others == { c \in NineCells(k) :
                    c # cell /\ Cardinality(g[c]) > 1 /\ g[c] \cap g[cell] # {} }
  IN  IF Cardinality(g[cell]) = 1
      THEN Res([c \in Cells |-> IF c \in others THEN g[c] \ g[cell] ELSE g[c]],
               st.count + Cardinality(others))
      ELSE st

\* One iteration of "for cell in nine": a cell of length 1 is removed from
\* every other cell of the nine that meets it.
eliminateFoundCell(st, k, p) ==
  LET g == st.g
      cell == NineCell(k, p)
      others == { c \in NineCells(k) : c # cell /\ g[c] \cap g[cell] # {} }
  IN  IF Cardinality(g[cell]) = 1
      THEN Res([c \in Cells |-> IF c \in others THEN g[c] \ g[cell] ELSE g[c]],
               st.count + Cardinality(others))
      ELSE st

RECURSIVE eliminateFoundNine(_, _, _)
eliminateFoundNine(st, k, p) ==
  Only({ IF p > 8 THEN s
          ELSE eliminateFoundNine(eliminateFoundCell(s, k, p), k, p + 1) : s \in {st} })

RECURSIVE eliminateFoundFrom(_, _)
eliminateFoundFrom(st, k) ==
  Only({ IF k > 26 THEN s
          ELSE eliminateFoundFrom(eliminateFoundNine(s, k, 0), k + 1) : s \in {st} })

eliminateFound(g) == eliminateFoundFrom(Res(g, 0), 0)

(***************************************************************************)
(* uniqueCell                                                               *)
(***************************************************************************)

\* One iteration of "for i in range(1, 10)".
uniqueCellDigit(st, k, i) ==
  LET g == st.g
      foundIn == { c \in NineCells(k) : i \in g[c] }
  IN  IF Cardinality(foundIn) = 1 /\ (\E c \in foundIn : Cardinality(g[c]) > 1)
      THEN Res([c \in Cells |-> IF c \in foundIn THEN g[c] \cap {i} ELSE g[c]],
               st.count + 1)
      ELSE st

RECURSIVE uniqueCellNine(_, _, _)
uniqueCellNine(st, k, i) ==
  Only({ IF i > 9 THEN s
          ELSE uniqueCellNine(uniqueCellDigit(s, k, i), k, i + 1) : s \in {st} })

RECURSIVE uniqueCellFrom(_, _)
uniqueCellFrom(st, k) ==
  Only({ IF k > 26 THEN s
          ELSE uniqueCellFrom(uniqueCellNine(s, k, 1), k + 1) : s \in {st} })

uniqueCell(g) == uniqueCellFrom(Res(g, 0), 0)

(***************************************************************************)
(* nakedTuple                                                               *)
(***************************************************************************)

\* A faulty nakedTuple: "c ^= cell" for "c -= cell".
nakedTupleCellXor(st, k, p) ==
  LET g == st.g
      cell == NineCell(k, p)
      isSubset == { c \in NineCells(k) : g[c] \subseteq g[cell] }
      toReduce == { c \in NineCells(k) \ isSubset : g[c] \cap g[cell] # {} }
  IN  IF Cardinality(g[cell]) > 1 /\ Cardinality(isSubset) = Cardinality(g[cell])
      THEN Res([c \in Cells |-> IF c \in toReduce
                                 THEN (g[c] \ g[cell]) \cup (g[cell] \ g[c])
                                 ELSE g[c]],
               st.count + Cardinality(toReduce))
      ELSE st

\* One iteration of "for cell in nine".
nakedTupleCell(st, k, p) ==
  LET g == st.g
      cell == NineCell(k, p)
      isSubset == { c \in NineCells(k) : g[c] \subseteq g[cell] }
      toReduce == { c \in NineCells(k) \ isSubset : g[c] \cap g[cell] # {} }
  IN  IF Cardinality(g[cell]) > 1 /\ Cardinality(isSubset) = Cardinality(g[cell])
      THEN Res([c \in Cells |-> IF c \in toReduce THEN g[c] \ g[cell] ELSE g[c]],
               st.count + Cardinality(toReduce))
      ELSE st

RECURSIVE nakedTupleNine(_, _, _)
nakedTupleNine(st, k, p) ==
  Only({ IF p > 8 THEN s
          ELSE nakedTupleNine(nakedTupleCell(s, k, p), k, p + 1) : s \in {st} })

RECURSIVE nakedTupleFrom(_, _)
nakedTupleFrom(st, k) ==
  Only({ IF k > 26 THEN s
          ELSE nakedTupleFrom(nakedTupleNine(s, k, 0), k + 1) : s \in {st} })

nakedTuple(g) == nakedTupleFrom(Res(g, 0), 0)

(***************************************************************************)
(* hiddenTuple                                                              *)
(***************************************************************************)

\* One iteration of "for cell in nine": isIntersect is 1 on the supersets of
\* the cell, -1 on the cells that meet it without containing it.
hiddenTupleCell(st, k, p) ==
  LET g == st.g
      cell == NineCell(k, p)
      supers == { c \in NineCells(k) : g[cell] \subseteq g[c] }
      partial == { c \in NineCells(k) \ supers : g[cell] \cap g[c] # {} }
      toReduce == { c \in supers : Cardinality(g[c]) > Cardinality(g[cell]) }
  IN  IF /\ Cardinality(g[cell]) > 1
         /\ Cardinality(supers) = Cardinality(g[cell])
         /\ partial = {}
      THEN Res([c \in Cells |-> IF c \in toReduce THEN g[c] \cap g[cell] ELSE g[c]],
               st.count + Cardinality(toReduce))
      ELSE st

RECURSIVE hiddenTupleNine(_, _, _)
hiddenTupleNine(st, k, p) ==
  Only({ IF p > 8 THEN s
          ELSE hiddenTupleNine(hiddenTupleCell(s, k, p), k, p + 1) : s \in {st} })

RECURSIVE hiddenTupleFrom(_, _)
hiddenTupleFrom(st, k) ==
  Only({ IF k > 26 THEN s
          ELSE hiddenTupleFrom(hiddenTupleNine(s, k, 0), k + 1) : s \in {st} })

hiddenTuple(g) == hiddenTupleFrom(Res(g, 0), 0)

(***************************************************************************)
(* lockedCandidates                                                         *)
(***************************************************************************)

\* The digits found in a collection of cells.
NumsIn(g, cs) == UNION { g[c] : c \in cs }

\* One iteration of "for ix, trip in enumerate(triplets)".  inTriplet, inLine
\* and inSquare are computed once, before the loop over the numbers.
lockedCandidatesTrip(st, t) ==
  LET g == st.g
      line == LineSisters(t)
      square == SquareSisters(t)
      inTriplet == NumsIn(g, { c \in TripCells(t) : Cardinality(g[c]) > 1 })
      inLine == NumsIn(g, line)
      inSquare == NumsIn(g, square)
      offLine == (inTriplet \cap inLine) \ inSquare
      offSquare == (inTriplet \cap inSquare) \ inLine
      removed == { cd \in (line \X offLine) \cup (square \X offSquare) : cd[2] \in g[cd[1]] }
  IN  IF removed = {} THEN st
      ELSE Res([c \in Cells |->
                  IF c \in line THEN g[c] \ offLine
                  ELSE IF c \in square THEN g[c] \ offSquare
                  ELSE g[c]],
               st.count + Cardinality(removed))

RECURSIVE lockedCandidatesFrom(_, _)
lockedCandidatesFrom(st, t) ==
  Only({ IF t > 53 THEN s
          ELSE lockedCandidatesFrom(lockedCandidatesTrip(s, t), t + 1) : s \in {st} })

lockedCandidates(g) == lockedCandidatesFrom(Res(g, 0), 0)

(***************************************************************************)
(* xWing                                                                    *)
(***************************************************************************)

\* The indices within a line whose cell admits n.
Where(g, line, n) == { p \in Pos : n \in g[NineCell(line, p)] }

\* One iteration of "for n in range(1, 10)" of xWing1.  line1 and line2 are
\* nines; perps[ix] is nine perp0 + ix.
xWing1Digit(st, line1, line2, perp0, n) ==
  LET g == st.g
      l1 == Where(g, line1, n)
      l2 == Where(g, line2, n)
      keep == { NineCell(line1, p) : p \in l1 } \cup { NineCell(line2, p) : p \in l1 }
      hit == { c \in UNION { NineCells(perp0 + p) : p \in l1 } : n \in g[c] /\ c \notin keep }
  IN  IF Cardinality(l1) = 2 /\ l1 = l2
      THEN Res([c \in Cells |-> IF c \in hit THEN g[c] \ {n} ELSE g[c]],
               st.count + Cardinality(hit))
      ELSE st

RECURSIVE xWing1From(_, _, _, _, _)
xWing1From(st, line1, line2, perp0, n) ==
  Only({ IF n > 9 THEN s
          ELSE xWing1From(xWing1Digit(s, line1, line2, perp0, n),
                          line1, line2, perp0, n + 1)
        : s \in {st} })

xWing1(st, line1, line2, perp0) == xWing1From(st, line1, line2, perp0, 1)

\* "for i2, row2 in enumerate(nines[i1 + 1:9], start=i1 + 1)".
RECURSIVE xWingInner(_, _, _, _, _)
xWingInner(st, base, perp0, i1, i2) ==
  Only({ IF i2 > 8 THEN s
          ELSE xWingInner(xWing1(s, base + i1, base + i2, perp0),
                          base, perp0, i1, i2 + 1)
        : s \in {st} })

\* "for i1, row1 in enumerate(nines[0:8])".
RECURSIVE xWingOuter(_, _, _, _)
xWingOuter(st, base, perp0, i1) ==
  Only({ IF i1 > 7 THEN s
          ELSE xWingOuter(xWingInner(s, base, perp0, i1, i1 + 1), base, perp0, i1 + 1)
        : s \in {st} })

\* Rows against the columns first, then columns against the rows.
xWing(g) == xWingOuter(xWingOuter(Res(g, 0), 0, 9, 0), 9, 0, 0)

(***************************************************************************)
(* swordfish                                                                *)
(***************************************************************************)

\* The indices within a line whose cell admits n and is not yet determined.
WhereOpen(g, line, n) ==
  { p \in Pos : n \in g[NineCell(line, p)] /\ Cardinality(g[NineCell(line, p)]) > 1 }

\* One iteration of "for n in range(1, 10)" of swordfish1.
swordfish1Digit(st, line1, line2, line3, perp0, n) ==
  LET g == st.g
      l1 == WhereOpen(g, line1, n)
      l2 == WhereOpen(g, line2, n)
      l3 == WhereOpen(g, line3, n)
      foundInPerps == l1 \cup l2 \cup l3
      keep == { NineCell(l, p) : l \in {line1, line2, line3}, p \in foundInPerps }
      hit == { c \in UNION { NineCells(perp0 + p) : p \in foundInPerps } :
                 n \in g[c] /\ c \notin keep }
  IN  IF /\ Cardinality(l1) >= 2 /\ Cardinality(l2) >= 2 /\ Cardinality(l3) >= 2
         /\ Cardinality(foundInPerps) = 3
      THEN Res([c \in Cells |-> IF c \in hit THEN g[c] \ {n} ELSE g[c]],
               st.count + Cardinality(hit))
      ELSE st

RECURSIVE swordfish1From(_, _, _, _, _, _)
swordfish1From(st, line1, line2, line3, perp0, n) ==
  Only({ IF n > 9 THEN s
          ELSE swordfish1From(swordfish1Digit(s, line1, line2, line3, perp0, n),
                              line1, line2, line3, perp0, n + 1)
        : s \in {st} })

swordfish1(st, line1, line2, line3, perp0) == swordfish1From(st, line1, line2, line3, perp0, 1)

\* "for i3, row3 in enumerate(nines[(i2+1):9], start=i2 + 1)".
RECURSIVE swordfishInner(_, _, _, _, _, _)
swordfishInner(st, base, perp0, i1, i2, i3) ==
  Only({ IF i3 > 8 THEN s
          ELSE swordfishInner(swordfish1(s, base + i1, base + i2, base + i3, perp0),
                              base, perp0, i1, i2, i3 + 1)
        : s \in {st} })

\* "for i2, row2 in enumerate(nines[(i1+1):8], start=i1 + 1)".
RECURSIVE swordfishMiddle(_, _, _, _, _)
swordfishMiddle(st, base, perp0, i1, i2) ==
  Only({ IF i2 > 7 THEN s
          ELSE swordfishMiddle(swordfishInner(s, base, perp0, i1, i2, i2 + 1),
                               base, perp0, i1, i2 + 1)
        : s \in {st} })

\* "for i1, row1 in enumerate(nines[0:7])".
RECURSIVE swordfishOuter(_, _, _, _)
swordfishOuter(st, base, perp0, i1) ==
  Only({ IF i1 > 6 THEN s
          ELSE swordfishOuter(swordfishMiddle(s, base, perp0, i1, i1 + 1),
                              base, perp0, i1 + 1)
        : s \in {st} })

\* Rows against the columns first, then columns against the rows.
swordfish(g) == swordfishOuter(swordfishOuter(Res(g, 0), 0, 9, 0), 9, 0, 0)

(***************************************************************************)
(* The heap of cell objects.  Every cell of every game is one Python set;   *)
(* a game (gameNines[0:9]) is the map from the 81 positions to the objects  *)
(* it references, and heap gives each live object's contents.               *)
(***************************************************************************)

Range(f) == { f[x] : x \in DOMAIN f }

\* The candidate grid seen through a game's references.
View(h, ids) == [c \in Cells |-> h[ids[c]]]

\* In-place mutation of a game's cells: each object that the game references
\* takes the contents the rule left in it; no other object is touched.
Store(h, ids, g) ==
  LET own == Range(ids)
  IN  [i \in DOMAIN h |-> IF i \in own THEN g[CHOOSE c \in Cells : ids[c] = i] ELSE h[i]]

\* A faulty flat length: the cells are counted, not their candidates.
FlatLenCells(g) == Cardinality(DOMAIN g)

\* len([x for x in flatten(gameNines[0:9])]): the candidates of all cells.
FlatLen(g) == Cardinality({ cd \in Cells \X Digits : cd[2] \in g[cd[1]] })

\* A faulty clone: copy.copy for copy.deepcopy, so that the new rows
\* reference the cells of the source.
shallowcopy(ids, b) == ids

\* copy.deepcopy(gameNines[0:9]): 81 new objects, numbered from block b.
deepcopy(ids, b) == [c \in Cells |-> 81 * b + c]

\* The heap after "newGame = copy.deepcopy(...)": the objects of newGame
\* hold what the objects of the source hold.
Allocate(h, src, dst) ==
  [i \in DOMAIN h \cup Range(dst) |->
     IF i \in Range(dst) THEN h[src[CHOOSE c \in Cells : dst[c] = i]] ELSE h[i]]

\* startState: {1..9} for a 0, the singleton of the given otherwise.
startState(puz) == [c \in Cells |-> IF puz[c] = 0 THEN Digits ELSE {puz[c]}]

\* The first cell of length above 1, rows first, then columns; -1 if none
\* (hypoCoords stays None).
hypoCoords(g) ==
  IF \E c \in Cells : Cardinality(g[c]) > 1
  THEN CHOOSE c \in Cells : /\ Cardinality(g[c]) > 1
                            /\ \A d \in 0 .. (c - 1) : Cardinality(g[d]) <= 1
  ELSE -1

\* The orders in which "for n in hypoValues" may visit a set: Python leaves
\* the iteration order of a set unspecified.
RECURSIVE Orders(_)
Orders(S) ==
  IF S = {} THEN { <<>> }
  ELSE UNION { { <<x>> \o rest : rest \in Orders(S \ {x}) } : x \in S }

\* A faulty iteration: the clone is appended without "&= { n }".
spawn1Unrestricted(st, ids, target, n) ==
  LET newGame == deepcopy(ids, st.block)
  IN  [heap |-> Allocate(st.heap, ids, newGame),
       queue |-> Append(st.queue, newGame),
       block |-> st.block + 1]

\* One iteration of "for n in hypoValues": clone, restrict the target cell
\* to n, append.  st = [heap, queue, block].
spawn1(st, ids, target, n) ==
  LET newGame == deepcopy(ids, st.block)
      h1 == Allocate(st.heap, ids, newGame)
  IN  [heap |-> [h1 EXCEPT ![newGame[target]] = @ \cap {n}],
       queue |-> Append(st.queue, newGame),
       block |-> st.block + 1]

\* The loop "for n in hypoValues", in the order the set is iterated.
RECURSIVE spawn(_, _, _, _)
spawn(st, ids, target, order) ==
  Only({ IF order = <<>> THEN s
          ELSE spawn(spawn1(s, ids, target, Head(order)), ids, target, Tail(order))
        : s \in {st} })

\* A faulty conversion: gameNines[9:18], the columns, for gameNines[0:9].
solutionOfColumns(g) == [c \in Cells |-> CHOOSE d \in g[9 * (c % 9) + (c \div 9)] : TRUE]

\* [[list(cell)[0] for cell in row] for row in gameNines[0:9]]: the digits of
\* a grid of singletons.
solutionOf(g) == [c \in Cells |-> CHOOSE d \in g[c] : TRUE]

\* A faulty verdict: the flat length is tested before the empty cells.
classifyLenFirst(g, len) ==
  IF len = 81 THEN 1
  ELSE IF \E c \in Cells : g[c] = {} THEN -1
  ELSE 0

\* applyAndValidate's verdict on the grid it stopped on.
classify(g, len) ==
  IF \E c \in Cells : g[c] = {} THEN -1
  ELSE IF len = 81 THEN 1
  ELSE 0

(***************************************************************************)
(* The state machine.                                                       *)
(***************************************************************************)

\* How often applyAndValidate is called again on its own result.
MaxReapply == 1

VARIABLES
  entry,           \* "solve": sudoku_solver(puzzle); "apply": applyAndValidate(state)
  puzzle,          \* the input of sudoku_solver (0 = unknown)
  heap,            \* the contents of the live cell objects
  nextBlock,       \* the number of games allocated so far
  gameNines,       \* the references of the game being reduced
  gameQueue,       \* the references of the games waiting
  validSolutions,  \* the solved grids found, as digits
  called,          \* the grid on entry to the running applyAndValidate call
  inlen,           \* applyAndValidate's inlen
  count,           \* applyAndValidate's count
  passes,          \* passes of the while loop completed in the running call
  invoked,         \* the rules called so far in the running pass, with what they returned
  reduceResult,    \* what the last applyAndValidate call returned
  lastResult,      \* what the call before it returned
  calls,           \* applyAndValidate calls completed on this game ("apply")
  result,          \* how sudoku_solver ended
  pc

vars == << entry, puzzle, heap, nextBlock, gameNines, gameQueue, validSolutions,
           called, inlen, count, passes, invoked, reduceResult, lastResult, calls, result, pc >>

Rules == { "eliminateFound", "uniqueCell", "nakedTuple", "hiddenTuple",
           "lockedCandidates", "xWing", "swordfish" }

\* The grid of the game being reduced.
Now == View(heap, gameNines)

\* A faulty guard: the rule is called whatever count is.
IfAny(n, rule) == rule

\* A faulty guard: "if (count != 0)".
IfNonZero(n, rule) == IF n # 0 THEN rule ELSE "endPass"

\* "if (count == 0): count += rule(...)": once a rule of the pass has counted,
\* every later rule is skipped and the pass ends.
IfZero(n, rule) == IF n = 0 THEN rule ELSE "endPass"

\* A rule has run on the current game: its cells are mutated in place and
\* its return value is added to count.
Ran(r, next) ==
  /\ heap' = Store(heap, gameNines, r.g)
  /\ count' = count + r.count
  /\ invoked' = Append(invoked, [rule |-> pc, returned |-> r.count])
  /\ pc' = next
  /\ UNCHANGED << entry, puzzle, nextBlock, gameNines, gameQueue, validSolutions,
                  called, inlen, passes, reduceResult, lastResult, calls, result >>

\* gameQueue.pop(0), and applyAndValidate up to the head of its first pass.
Pop ==
  /\ pc = "loop"
  /\ gameQueue # << >>
  /\ gameNines' = Head(gameQueue)
  /\ gameQueue' = Tail(gameQueue)
  /\ LET live == UNION { Range(gameQueue[k]) : k \in 1 .. Len(gameQueue) }
     IN  heap' = [i \in live |-> heap[i]]
  /\ called' = View(heap, Head(gameQueue))
  /\ inlen' = FlatLen(View(heap, Head(gameQueue)))
  /\ count' = 0
  /\ passes' = 0
  /\ invoked' = << >>
  /\ pc' = "eliminateFound"
  /\ UNCHANGED << entry, puzzle, nextBlock, validSolutions, reduceResult, lastResult,
                  calls, result >>

EliminateFound ==
  /\ pc = "eliminateFound"
  /\ \E r \in { eliminateFound(Now) } : Ran(r, "uniqueCell")

UniqueCell ==
  /\ pc = "uniqueCell"
  /\ \E r \in { uniqueCell(Now) } : Ran(r, IfZero(count + r.count, "nakedTuple"))

NakedTuple ==
  /\ pc = "nakedTuple"
  /\ \E r \in { nakedTuple(Now) } : Ran(r, IfZero(count + r.count, "hiddenTuple"))

HiddenTuple ==
  /\ pc = "hiddenTuple"
  /\ \E r \in { hiddenTuple(Now) } : Ran(r, IfZero(count + r.count, "lockedCandidates"))

LockedCandidates ==
  /\ pc = "lockedCandidates"
  /\ \E r \in { lockedCandidates(Now) } : Ran(r, IfZero(count + r.count, "xWing"))

XWing ==
  /\ pc = "xWing"
  /\ \E r \in { xWing(Now) } : Ran(r, IfZero(count + r.count, "swordfish"))

Swordfish ==
  /\ pc = "swordfish"
  /\ \E r \in { swordfish(Now) } : Ran(r, "endPass")

\* The end of a pass: another pass if the flat length fell, else the loop ends.
EndPass ==
  /\ pc = "endPass"
  /\ LET newlen == FlatLen(Now)
     IN  IF newlen < inlen
         THEN /\ inlen' = newlen
              /\ count' = 0
              /\ passes' = passes + 1
              /\ invoked' = << >>
              /\ pc' = "eliminateFound"
         ELSE /\ pc' = "classify"
              /\ UNCHANGED << inlen, count, passes, invoked >>
  /\ UNCHANGED << entry, puzzle, heap, nextBlock, gameNines, gameQueue, validSolutions,
                  called, reduceResult, lastResult, calls, result >>

\* The return of applyAndValidate.
Classify ==
  /\ pc = "classify"
  /\ reduceResult' = classify(Now, inlen)
  /\ lastResult' = reduceResult
  /\ calls' = calls + 1
  /\ pc' = IF entry = "solve" THEN "dispatch" ELSE "returned"
  /\ UNCHANGED << entry, puzzle, heap, nextBlock, gameNines, gameQueue, validSolutions,
                  called, inlen, count, passes, invoked, result >>

\* reduceResult == 1: the grid is appended to validSolutions.
Record ==
  /\ pc = "dispatch"
  /\ reduceResult = 1
  /\ validSolutions' = Append(validSolutions, solutionOf(Now))
  /\ pc' = "loop"
  /\ UNCHANGED << entry, puzzle, heap, nextBlock, gameNines, gameQueue, called, inlen,
                  count, passes, invoked, reduceResult, lastResult, calls, result >>

\* reduceResult == -1: neither branch of the if is taken.
Discard ==
  /\ pc = "dispatch"
  /\ reduceResult = -1
  /\ pc' = "loop"
  /\ UNCHANGED << entry, puzzle, heap, nextBlock, gameNines, gameQueue, validSolutions,
                  called, inlen, count, passes, invoked, reduceResult, lastResult, calls, result >>

\* reduceResult == 0: one clone per value of the first unresolved cell.
Branch ==
  /\ pc = "dispatch"
  /\ reduceResult = 0
  /\ \E target \in { hypoCoords(Now) } :
       LET hypoValues == IF target = -1 THEN {} ELSE Now[target]
       IN  \E order \in Orders(hypoValues) :
             \E st \in { spawn([heap |-> heap, queue |-> gameQueue, block |-> nextBlock],
                               gameNines, target, order) } :
               /\ heap' = st.heap
               /\ gameQueue' = st.queue
               /\ nextBlock' = st.block
  /\ pc' = "loop"
  /\ UNCHANGED << entry, puzzle, gameNines, validSolutions, called, inlen, count, passes,
                  invoked, reduceResult, lastResult, calls, result >>

\* The queue is empty: return the one solution or raise.
Finish ==
  /\ pc = "loop"
  /\ gameQueue = << >>
  /\ result' = IF Len(validSolutions) = 1 THEN "returned"
               ELSE IF Len(validSolutions) = 0 THEN "No valid solutions"
               ELSE "Multiple solutions"
  /\ pc' = "done"
  /\ UNCHANGED << entry, puzzle, heap, nextBlock, gameNines, gameQueue, validSolutions,
                  called, inlen, count, passes, invoked, reduceResult, lastResult, calls >>

\* applyAndValidate is called again on the grid it returned from.
Reapply ==
  /\ pc = "returned"
  /\ calls <= MaxReapply
  /\ called' = Now
  /\ inlen' = FlatLen(Now)
  /\ count' = 0
  /\ passes' = 0
  /\ invoked' = << >>
  /\ pc' = "eliminateFound"
  /\ UNCHANGED << entry, puzzle, heap, nextBlock, gameNines, gameQueue, validSolutions,
                  reduceResult, lastResult, calls, result >>

Next ==
  \/ Pop
  \/ EliminateFound
  \/ UniqueCell
  \/ NakedTuple
  \/ HiddenTuple
  \/ LockedCandidates
  \/ XWing
  \/ Swordfish
  \/ EndPass
  \/ Classify
  \/ Record
  \/ Discard
  \/ Branch
  \/ Finish
  \/ Reapply

\* The puzzle the program solves when it is run.
SourcePuzzle ==
  << 0, 0, 6, 1, 0, 0, 0, 0, 8,
     0, 8, 0, 0, 9, 0, 0, 3, 0,
     2, 0, 0, 0, 0, 5, 4, 0, 0,
     4, 0, 0, 0, 0, 1, 8, 0, 0,
     0, 3, 0, 0, 7, 0, 0, 4, 0,
     0, 0, 7, 9, 0, 0, 0, 0, 3,
     0, 0, 8, 4, 0, 0, 0, 0, 6,
     0, 2, 0, 0, 5, 0, 0, 8, 0,
     1, 0, 0, 0, 0, 2, 5, 0, 0 >>

\* A row-major tuple of 81 entries as a function of the cell index.
Grid(t) == [c \in Cells |-> t[c + 1]]

Block0 == [c \in Cells |-> c]

\* sudoku_solver(puz) up to the while loop: the start state is the only game
\* of the queue.
InitSolve(puz) ==
  /\ entry = "solve"
  /\ puzzle = puz
  /\ heap = [i \in Cells |-> startState(puz)[i]]
  /\ nextBlock = 1
  /\ gameNines = Block0
  /\ gameQueue = << Block0 >>
  /\ validSolutions = << >>
  /\ called = startState(puz)
  /\ inlen = 0
  /\ count = 0
  /\ passes = 0
  /\ invoked = << >>
  /\ reduceResult = 0
  /\ lastResult = 0
  /\ calls = 0
  /\ result = "running"
  /\ pc = "loop"

\* applyAndValidate(g) up to the head of its first pass.
InitApply(puz, g) ==
  /\ entry = "apply"
  /\ puzzle = puz
  /\ heap = [i \in Cells |-> g[i]]
  /\ nextBlock = 1
  /\ gameNines = Block0
  /\ gameQueue = << >>
  /\ validSolutions = << >>
  /\ called = g
  /\ inlen = FlatLen(g)
  /\ count = 0
  /\ passes = 0
  /\ invoked = << >>
  /\ reduceResult = 0
  /\ lastResult = 0
  /\ calls = 0
  /\ result = "running"
  /\ pc = "eliminateFound"

(***************************************************************************)
(* The inputs.  Apart from the puzzle in the source, every puzzle is the    *)
(* solved grid Solution with some cells blanked, or with a given replaced.  *)
(***************************************************************************)

Solution ==
  << 3, 8, 9, 4, 2, 6, 7, 1, 5,
     7, 5, 2, 1, 8, 9, 3, 6, 4,
     6, 4, 1, 3, 5, 7, 8, 2, 9,
     5, 2, 8, 7, 6, 1, 9, 4, 3,
     1, 3, 4, 2, 9, 5, 6, 7, 8,
     9, 6, 7, 8, 4, 3, 2, 5, 1,
     4, 7, 3, 6, 1, 8, 5, 9, 2,
     2, 9, 6, 5, 3, 4, 1, 8, 7,
     8, 1, 5, 9, 7, 2, 4, 3, 6 >>

\* A puzzle with one solution (Solution) that needs a hypothesis: nakedTuple,
\* hiddenTuple and lockedCandidates all reduce its start state.
HiddenPuzzle ==
  << 3, 0, 9, 4, 2, 0, 7, 0, 5,
     7, 0, 2, 0, 0, 9, 3, 0, 0,
     0, 0, 1, 3, 0, 0, 0, 2, 9,
     5, 2, 8, 0, 6, 0, 9, 4, 3,
     1, 3, 4, 2, 9, 5, 6, 7, 8,
     0, 0, 7, 8, 4, 3, 0, 5, 0,
     0, 7, 3, 0, 1, 0, 5, 0, 0,
     0, 0, 6, 5, 3, 4, 0, 0, 7,
     0, 1, 5, 0, 0, 2, 0, 3, 6 >>

\* Cells blanked one after the other.  Every prefix leaves a puzzle whose
\* only solution is Solution.
BlankOrderA ==
  << 58, 53, 78, 12, 32, 77, 62, 13, 50, 33, 55, 21, 48, 71, 73, 26, 17, 79,
     25, 64, 44, 4, 14, 51, 20, 40, 68, 39, 15, 3, 49, 75, 69, 11, 30, 36 >>

\* Cells blanked one after the other: cells 0, 6, 9, 15 hold 3, 7, 7, 3 and
\* cells 25, 26, 61, 62 hold 2, 9, 9, 2, so that blanking the first four
\* leaves two solutions and blanking all eight leaves four.
BlankOrderB == << 0, 6, 9, 15, 25, 26, 61, 62, 39 >>

\* Cells whose candidate set is emptied, one after the other.
EmptyOrder == << 40, 28, 48, 65, 77 >>

\* How many cells of BlankOrderA, of BlankOrderB, of EmptyOrder are taken.
MaxBlanksA == 34

MaxBlanksB == 8

MaxEmpty == 4

\* Cell 40 is given as 1, which row 4 has in cell 36, column 4 in cell 58
\* and its square in cell 32: the clash is in the nines whose 1 is not blanked.
Clashes == { {}, {58, 32}, {36, 32}, {36, 58} }

Blanked(t, order, k) ==
  [c \in Cells |-> IF \E i \in 1 .. k : order[i] = c THEN 0 ELSE t[c + 1]]

Clashing(blanks) ==
  [c \in Cells |-> IF c = 40 THEN 1 ELSE IF c \in blanks THEN 0 ELSE Solution[c + 1]]

Emptied(g, j) == [c \in Cells |-> IF \E i \in 1 .. j : EmptyOrder[i] = c THEN {} ELSE g[c]]

PuzzlesA == { Blanked(Solution, BlankOrderA, k) : k \in 0 .. MaxBlanksA }

PuzzlesB == { Blanked(Solution, BlankOrderB, k) : k \in 0 .. MaxBlanksB }

Puzzles ==
  PuzzlesA \cup PuzzlesB \cup { Clashing(b) : b \in Clashes }
    \cup { Grid(SourcePuzzle), Grid(HiddenPuzzle) }

\* sudoku_solver on a puzzle, or applyAndValidate on the start state of a
\* puzzle with some of its cells emptied.
Init ==
  \/ \E puz \in Puzzles : InitSolve(puz)
  \/ \E puz \in PuzzlesB : \E j \in 0 .. MaxEmpty :
       InitApply(puz, Emptied(startState(puz), j))

Spec == Init /\ [][Next]_vars

\* The values of pc.
Labels == Rules \cup { "loop", "endPass", "classify", "dispatch", "returned", "done" }

\* sudoku_solver has returned or raised, or the last applyAndValidate call
\* has returned: no action is enabled.
Ended == pc = "done" \/ (pc = "returned" /\ calls > MaxReapply)

\* The program moves on until it has ended.  Some action is enabled in every
\* state that has not ended and every action changes pc, so the condition
\* below is WF_vars(Next), written so that it is decided from pc alone.
Advance == ~Ended /\ pc' \in Labels \ {pc}

FairSpec == Spec /\ WF_pc(Advance)

(***************************************************************************)
(* Properties.  What a Sudoku is, written without the nines of setupGame.   *)
(***************************************************************************)

SameRow(a, b) == a \div 9 = b \div 9

SameColumn(a, b) == a % 9 = b % 9

SameBox(a, b) == (a \div 27 = b \div 27) /\ ((a % 9) \div 3 = (b % 9) \div 3)

\* The 20 cells that share a row, a column or a box with a cell.
PeersOf ==
  Tabulated([c \in Cells |->
    { p \in Cells \ {c} : SameRow(c, p) \/ SameColumn(c, p) \/ SameBox(c, p) }])

\* A grid of digits with each digit once in every row, column and box.
ValidDigits(f) ==
  \A c \in Cells : f[c] \in Digits /\ (\A p \in PeersOf[c] : f[p] # f[c])

\* Two givens of the puzzle clash in a row, a column or a box.
HasDuplicate(puz) ==
  \E c \in Cells : puz[c] # 0 /\ (\E p \in PeersOf[c] : puz[p] = puz[c])

\* The digits a blank cell of f can take next to the digits placed in f.
Free(f, c) == Digits \ { f[p] : p \in PeersOf[c] }

\* The valid completions of a partial grid whose placed digits do not clash:
\* the blank cell with the fewest free digits is filled in every way.
RECURSIVE Fill(_)
Fill(f) ==
  LET blanks == { c \in Cells : f[c] = 0 }
  IN  IF blanks = {} THEN { f }
      ELSE LET c == CHOOSE b \in blanks :
                      \A o \in blanks : Cardinality(Free(f, b)) <= Cardinality(Free(f, o))
           IN  UNION { Fill([f EXCEPT ![c] = d]) : d \in Free(f, c) }

\* The valid completions of a puzzle.
Completions(puz) == IF HasDuplicate(puz) THEN {} ELSE Fill(Tabulated(puz))

\* The number of candidates of a grid, summed over its cells.
TotalOf(g) == Cardinality({ cd \in Cells \X Digits : cd[2] \in g[cd[1]] })

Subgrid(a, b) == \A c \in Cells : a[c] \subseteq b[c]

Singletons(g) == \A c \in Cells : Cardinality(g[c]) = 1

NoEmpty(g) == \A c \in Cells : g[c] # {}

\* The k-th smallest member of a set of digits.
Nth(S, k) == CHOOSE d \in S : Cardinality({ e \in S : e < d }) = k - 1

\* The first eliminateFound of the first applyAndValidate call has returned.
FirstEliminateDone == calls > 0 \/ passes > 0 \/ invoked # << >>

\* C1: when sudoku_solver ends, the grids it collected are the valid
\* completions of the puzzle, each collected once: none is lost by a rule or
\* a branching step.  It returns exactly when there is one completion, raises
\* "No valid solutions" exactly when there is none and "Multiple solutions"
\* exactly when there are two or more.
C1_OutcomeMatchesCompletions ==
  (entry = "solve" /\ pc = "done") =>
    LET sols == Completions(puzzle)
        found == { validSolutions[i] : i \in 1 .. Len(validSolutions) }
    IN  /\ found = sols
        /\ Cardinality(found) = Len(validSolutions)
        /\ (result = "returned") <=> (Cardinality(sols) = 1)
        /\ (result = "No valid solutions") <=> (sols = {})
        /\ (result = "Multiple solutions") <=> (Cardinality(sols) >= 2)

\* C2: a grid that applyAndValidate classifies as Solved has 81 singleton
\* cells with no digit twice in a row, column or box; the grid that
\* sudoku_solver returns has each digit once in every row, column and box and
\* holds every given of the puzzle.
C2_ReturnedGridValid ==
  /\ (pc \in { "dispatch", "returned" } /\ reduceResult = 1) =>
       /\ Singletons(Now)
       /\ \A c \in Cells : \A p \in PeersOf[c] : Now[p] # Now[c]
  /\ (pc = "done" /\ result = "returned") =>
       /\ ValidDigits(validSolutions[1])
       /\ \A c \in Cells : puzzle[c] # 0 => validSolutions[1][c] = puzzle[c]

\* sudoku_solver has returned the solution of a puzzle that needed a hypothesis.
C2_Witness ==
  /\ pc = "done"
  /\ result = "returned"
  /\ nextBlock > 1
  /\ \E c \in Cells : puzzle[c] = 0

\* C3: each call of each of the seven rules leaves in every cell a subset of
\* the candidates the cell had before the call, and so does a whole
\* applyAndValidate run: no cell ever gains a digit.
C3_CandidatesOnlyShrink ==
  [][ /\ (pc \in Rules) => Subgrid(View(heap', gameNines'), Now)
      /\ (pc' = "classify") => Subgrid(View(heap', gameNines'), called') ]_vars

\* A pass in which all seven rules were called and swordfish removed candidates.
C3_Witness ==
  /\ pc = "endPass"
  /\ Len(invoked) = 7
  /\ invoked[7].rule = "swordfish"
  /\ invoked[7].returned > 0

\* C4: every applyAndValidate call reaches its return, on grids with empty
\* cells too.  inlen is the number of candidates at the head of each pass; a
\* pass that is followed by another has lowered that number, and the pass the
\* loop stops on has left it as it was.
C4_PassesDecreaseUntilStop ==
  /\ (pc = "eliminateFound") ~> (pc = "classify")
  /\ [](pc = "eliminateFound" => inlen = TotalOf(Now))
  /\ [][ (pc = "endPass") =>
           IF pc' = "eliminateFound"
           THEN TotalOf(Now) < inlen /\ passes' = passes + 1
           ELSE TotalOf(Now) = inlen /\ pc' = "classify" ]_vars

\* applyAndValidate, called on a grid with empty cells, has left its loop
\* after more than one pass.
C4_Witness ==
  /\ entry = "apply"
  /\ pc = "classify"
  /\ passes >= 1
  /\ \E c \in Cells : called[c] = {}

\* C5: sudoku_solver reaches its end with an empty queue.  Every child
\* enqueued from an InProgress parent has fewer candidates than the parent's
\* propagated grid, no rule raises the number of candidates, and a Solved or
\* Contradiction state enqueues nothing.
C5_SearchTerminates ==
  /\ (entry = "solve") ~> (pc = "done" /\ gameQueue = << >>)
  /\ [][ /\ (pc = "dispatch" /\ reduceResult = 0) =>
              /\ Len(gameQueue') > Len(gameQueue)
              /\ \A k \in (Len(gameQueue) + 1) .. Len(gameQueue') :
                   TotalOf(View(heap', gameQueue'[k])) < TotalOf(Now)
         /\ (pc = "dispatch" /\ reduceResult # 0) =>
              gameQueue' = gameQueue /\ nextBlock' = nextBlock
         /\ (pc \in Rules) => TotalOf(View(heap', gameNines')) <= TotalOf(Now) ]_vars

\* A search that branched more than once has ended.
C5_Witness ==
  /\ pc = "done"
  /\ nextBlock >= 5
  /\ gameQueue = << >>

\* C6: when two givens clash in a row, a column or a box, the first
\* eliminateFound call empties a cell, the one applyAndValidate call returns
\* -1, nothing is recorded or enqueued and sudoku_solver raises "No valid
\* solutions".  On any puzzle a state classified -1 is dropped: the step that
\* follows records nothing and enqueues nothing.
C6_ClashingGivensRejected ==
  /\ []((entry = "solve" /\ HasDuplicate(puzzle)) =>
          /\ FirstEliminateDone => (\E c \in Cells : Now[c] = {})
          /\ calls <= 1
          /\ calls = 1 => reduceResult = -1
          /\ validSolutions = << >>
          /\ nextBlock = 1
          /\ Len(gameQueue) <= 1
          /\ pc = "done" => result = "No valid solutions")
  /\ [][ (pc = "dispatch" /\ reduceResult = -1) =>
           /\ validSolutions' = validSolutions
           /\ gameQueue' = gameQueue
           /\ nextBlock' = nextBlock ]_vars

\* sudoku_solver has ended on a puzzle with clashing givens.
C6_Witness ==
  /\ pc = "done"
  /\ HasDuplicate(puzzle)
  /\ result = "No valid solutions"

\* C7: no two games of the queue share a cell, and none shares a cell with
\* the game being reduced.  No step changes the candidates of a game that
\* stays in the queue, and the branching step leaves the parent's candidates
\* as they were.
C7_CloneIsolation ==
  /\ [](\A i, j \in 1 .. Len(gameQueue) :
          i # j => Range(gameQueue[i]) \cap Range(gameQueue[j]) = {})
  /\ []((calls > 0 \/ pc # "loop") =>
          \A i \in 1 .. Len(gameQueue) : Range(gameQueue[i]) \cap Range(gameNines) = {})
  /\ [][ /\ \A i \in 1 .. Len(gameQueue) :
              (\E j \in 1 .. Len(gameQueue') : gameQueue'[j] = gameQueue[i]) =>
                View(heap', gameQueue[i]) = View(heap, gameQueue[i])
         /\ (pc = "dispatch") => View(heap', gameNines) = Now ]_vars

\* A rule has removed candidates from a child while two other games wait.
C7_Witness ==
  /\ pc = "endPass"
  /\ count > 0
  /\ nextBlock > 1
  /\ Len(gameQueue) >= 2

\* C8: applyAndValidate returns -1 exactly when the grid it stopped on has an
\* empty cell, even if the grid has 81 candidates in all; otherwise 1 exactly
\* when every cell is a singleton, which is when the grid has 81 candidates;
\* otherwise 0, and then some cell has two candidates or more.
C8_Classification ==
  (pc \in { "dispatch", "returned" }) =>
    /\ reduceResult \in { -1, 0, 1 }
    /\ (reduceResult = -1) <=> ~NoEmpty(Now)
    /\ (reduceResult = 1) <=> (NoEmpty(Now) /\ Singletons(Now))
    /\ NoEmpty(Now) => (Singletons(Now) <=> TotalOf(Now) = 81)
    /\ (reduceResult = 0) => (\E c \in Cells : Cardinality(Now[c]) >= 2)

\* applyAndValidate has returned -1 on a grid of 81 candidates with an empty cell.
C8_Witness ==
  /\ pc = "returned"
  /\ reduceResult = -1
  /\ TotalOf(Now) = 81
  /\ ~NoEmpty(Now)

\* C9: on the grid applyAndValidate stops on, each of the seven rules returns
\* 0 and changes no cell; a second applyAndValidate call on that grid leaves
\* it as it is and returns what the first call returned.
C9_StopsOnFixpoint ==
  /\ (pc \in { "classify", "dispatch", "returned" }) =>
       /\ eliminateFound(Now) = Res(Now, 0)
       /\ uniqueCell(Now) = Res(Now, 0)
       /\ nakedTuple(Now) = Res(Now, 0)
       /\ hiddenTuple(Now) = Res(Now, 0)
       /\ lockedCandidates(Now) = Res(Now, 0)
       /\ xWing(Now) = Res(Now, 0)
       /\ swordfish(Now) = Res(Now, 0)
  /\ (pc = "returned" /\ calls >= 2) =>
       /\ Now = called
       /\ passes = 0
       /\ reduceResult = lastResult

\* applyAndValidate has returned 0 again from the unsolved grid it had stopped on.
C9_Witness ==
  /\ pc = "returned"
  /\ calls >= 2
  /\ reduceResult = 0
  /\ TotalOf(called) > 81

\* C10: games leave the queue at its head.  The branching step takes the
\* first cell with more than one candidate, rows first, and appends one child
\* per candidate of that cell to the tail of the queue, in increasing order
\* of the digit; the k-th child is the parent's grid with the cell reduced
\* to its k-th smallest candidate, and the parent is not appended.
C10_ChildrenInIncreasingOrder ==
  [][ /\ (pc = "loop" /\ gameQueue # << >>) =>
           gameNines' = Head(gameQueue) /\ gameQueue' = Tail(gameQueue)
      /\ (pc = "dispatch" /\ reduceResult = 0) =>
           LET target == CHOOSE c \in Cells :
                           /\ Cardinality(Now[c]) > 1
                           /\ \A b \in Cells : b < c => Cardinality(Now[b]) <= 1
               n == Cardinality(Now[target])
               old == Len(gameQueue)
           IN  /\ Len(gameQueue') = old + n
               /\ SubSeq(gameQueue', 1, old) = gameQueue
               /\ \A k \in 1 .. n :
                    /\ View(heap', gameQueue'[old + k])
                         = [Now EXCEPT ![target] = { Nth(Now[target], k) }]
                    /\ gameQueue'[old + k] # gameNines ]_vars

\* The triples i1 < i2 < i3 of line indices, and the k-th of them in the
\* order the loops of swordfish take them.
TrioSet == { t \in Pos \X Pos \X Pos : t[1] < t[2] /\ t[2] < t[3] }

TrioBefore(u, t) ==
  \/ u[1] < t[1]
  \/ u[1] = t[1] /\ u[2] < t[2]
  \/ u[1] = t[1] /\ u[2] = t[2] /\ u[3] < t[3]

TrioAt ==
  Tabulated([k \in 0 .. (Cardinality(TrioSet) - 1) |->
    CHOOSE t \in TrioSet : Cardinality({ u \in TrioSet : TrioBefore(u, t) }) = k])

\* Digit n may go from cell c of grid g: three rows (base 0) or three columns
\* (base 9) that do not hold c have every cell that admits n, determined
\* cells included, in three perpendicular lines, one of which holds c.
Confining(g, c, n) ==
  \E base \in { 0, 9 } : \E t \in TrioSet :
    LET own == IF base = 0 THEN c \div 9 ELSE c % 9
        pos == IF base = 0 THEN c % 9 ELSE c \div 9
        places == UNION { Where(g, base + t[i], n) : i \in 1 .. 3 }
    IN  /\ own \notin { t[1], t[2], t[3] }
        /\ Cardinality(places \cup { pos }) <= 3

\* The k-th iteration of "for n in range(1, 10)" in a swordfish call, taken
\* on the running state s, with the record of whether every removal so far
\* was of a digit that Confining lets go and left the three chosen lines as
\* they were.
swordfishAuditStep(s, k) ==
  LET base == IF k < 9 * Cardinality(TrioSet) THEN 0 ELSE 9
      t == TrioAt[(k \div 9) % Cardinality(TrioSet)]
      n == (k % 9) + 1
      r == swordfish1Digit([g |-> s.g, count |-> s.count],
                           base + t[1], base + t[2], base + t[3], 9 - base, n)
      chosen == UNION { NineCells(base + t[i]) : i \in 1 .. 3 }
  IN  [g |-> r.g, count |-> r.count,
       sound |-> /\ s.sound
                 /\ \A c \in Cells :
                      r.g[c] # s.g[c] =>
                        /\ r.g[c] = s.g[c] \ {n}
                        /\ c \notin chosen
                        /\ Confining(s.g, c, n)]

\* Iterations lo .. hi of a swordfish call.
RECURSIVE swordfishAuditFrom(_, _, _)
swordfishAuditFrom(st, lo, hi) ==
  Only({ IF lo = hi THEN swordfishAuditStep(s, lo)
          ELSE swordfishAuditFrom(swordfishAuditFrom(s, lo, (lo + hi) \div 2),
                                  ((lo + hi) \div 2) + 1, hi)
        : s \in {st} })

\* A whole swordfish call on grid g: rows first, then columns.
swordfishAudit(g) ==
  swordfishAuditFrom([g |-> Tabulated(g), count |-> 0, sound |-> TRUE],
                     0, 2 * 9 * Cardinality(TrioSet) - 1)

\* C11: in a swordfish call, a digit is removed from a cell only when three
\* rows (or three columns) have every cell that admits the digit, determined
\* cells included, in the same three columns (rows); the cell is in one of
\* those perpendicular lines and outside the three lines, and no cell of the
\* three lines is changed.
C11_SwordfishRemovalsConfined ==
  (pc = "swordfish") => swordfishAudit(Now).sound

\* The rules in the order applyAndValidate names them.
RuleOrder ==
  << "eliminateFound", "uniqueCell", "nakedTuple", "hiddenTuple",
     "lockedCandidates", "xWing", "swordfish" >>

\* The rules called so far in the running pass are the first rules of the order.
InRuleOrder ==
  /\ Len(invoked) <= Len(RuleOrder)
  /\ \A i \in 1 .. Len(invoked) : invoked[i].rule = RuleOrder[i]
  /\ (pc \in Rules) => (Len(invoked) < Len(RuleOrder) /\ pc = RuleOrder[Len(invoked) + 1])

\* C12: within a pass the rules are called in the fixed order, and a rule is
\* called only if every rule called before it in the pass has returned 0.
C12_CalledOnlyAfterZeros ==
  /\ InRuleOrder
  /\ \A i \in 1 .. Len(invoked) : \A j \in 1 .. (i - 1) : invoked[j].returned = 0

\* C12, amended: within a pass the rules are called in the fixed order.
\* eliminateFound and uniqueCell are called in every pass, uniqueCell also
\* after eliminateFound has removed candidates.  Each of the five later rules
\* is called exactly when every rule called before it in the pass has
\* returned 0, and count is the sum of what the called rules returned.
C12_ShortCircuitAfterUniqueCell ==
  /\ InRuleOrder
  /\ \A i \in 3 .. Len(invoked) : \A j \in 1 .. (i - 1) : invoked[j].returned = 0
  /\ (pc \in Rules \ { "eliminateFound", "uniqueCell" }) => count = 0
  /\ (pc \in { "endPass", "classify" }) =>
       /\ Len(invoked) >= 2
       /\ (Len(invoked) < Len(RuleOrder)) => invoked[Len(invoked)].returned > 0
                                             \/ (Len(invoked) = 2 /\ invoked[1].returned > 0)
  /\ (pc \in Rules \cup { "endPass", "classify" }) =>
       count = (IF Len(invoked) >= 1 THEN invoked[1].returned ELSE 0)
               + (IF Len(invoked) >= 2 THEN invoked[2].returned ELSE 0)
               + (IF Len(invoked) >= 3 THEN invoked[Len(invoked)].returned ELSE 0)

\* A pass has ended in which uniqueCell was called, and removed candidates,
\* after eliminateFound had removed candidates.
C12_Witness ==
  /\ pc = "endPass"
  /\ Len(invoked) = 2
  /\ invoked[1].returned > 0
  /\ invoked[2].returned > 0

====
